---- MODULE Spec2Model ----
(***************************************************************************)
(* Minesweeper (wp-proj06.py): the Board class (cell matrix, put_mines,    *)
(* load_board, uncover, ripple_sequence) and the Game class (get_status,   *)
(* make_move).                                                             *)
(*                                                                         *)
(* A cell is the two-character string of the source ('0H', '*S', ...),     *)
(* written here as the pair of its characters <<value, state>>.  Source    *)
(* indices are 0-based; TLA+ sequences are 1-based, so self.board[i][j] is *)
(* b[i+1][j+1] and cell[0], cell[1] are cell[1], cell[2].                  *)
(***************************************************************************)
EXTENDS Integers, Sequences, FiniteSets, TLC

\* ------------------------------------------------------------------ bounds
MaxRows == 2
MaxCols == 3
MaxCells == 6
MaxMinesArg == 2
\* the boards and the inputs of the specification that loads boards
MaxCellsLoad == 4
\* the boards of the specification that starts from any loaded board
MaxCellsAny == 6
\* the boards of the specification that plays any loaded board
MaxCellsMove == 6
\* the boards of the specification that saves and loads again
MaxCellsSave == 6
\* the boards of the specification of a game
MaxRowsGame == 3
MaxColsGame == 3
MaxCellsGame == 9
\* how far outside the size limits the constructor's arguments go
SizeSlack == 1
\* the boards of the specification that runs the loops step by step
MaxRowsSteps == 2
MaxColsSteps == 4
MaxCellsSteps == 4
\* the boards of the specification of the game loop
MaxCellsRun == 4
\* the boards of the specification that counts the moves
MaxCellsPlay == 4
MaxLines == 2

\* ------------------------------------------------------- program constants
MIN_ROWS == 1
MAX_ROWS == 20
MIN_COLS == 2
MAX_COLS == 50
MIN_MINES == 1

VARIABLES
    rows,       \* Board.rows
    columns,    \* Board.columns
    board,      \* Board.board: sequence of rows, each a sequence of cells
    op,         \* the last method called
    exc,        \* the exception the last call raised, or "none"
    ret,        \* the value the last call returned (<<>> for None)
    lines,      \* the lines handed to the last call, when it was load_board
    seeded,     \* history: the last seeding that succeeded ("no" before any)
    frame       \* the local variables of the loop being run step by step

vars == <<rows, columns, board, op, exc, ret, lines, seeded, frame>>

None == <<>>

\* no loop is being run step by step
NoFrame == [loop |-> "none"]

\* ------------------------------------------------------------ cell helpers
\* '%d' % n for the digits the program formats
DigitChar(n) == <<"0", "1", "2", "3", "4", "5", "6", "7", "8">>[n + 1]

InSeq(x, s) == \E k \in 1..Len(s) : s[k] = x

\* checkIndices that compares the column with the number of rows
checkIndices_ColumnAgainstRows(row, column) ==
    ~(row < 0 \/ row >= rows \/ column < 0 \/ column >= rows)

\* Board.checkIndices: TRUE when it returns, FALSE when it raises
checkIndices(row, column) ==
    ~(row < 0 \/ row >= rows \/ column < 0 \/ column >= columns)

\* Board.get_value / Board.is_hidden, on in-range indices
get_value(b, row, column) == b[row + 1][column + 1][1]

is_hidden(b, row, column) ==
    IF b[row + 1][column + 1][2] = "H" THEN "H" ELSE "S"

\* Board.__init__: the cell matrix of a rows x columns board
Board__init__(r, c) == [i \in 1..r |-> [j \in 1..c |-> <<"0", "H">>]]

\* uncover that builds the cell as 'S' + value
uncover_Swapped(b, row, column) ==
    IF ~checkIndices(row, column)
    THEN [board |-> b, exc |-> "IllegalIndicesException"]
    ELSE IF is_hidden(b, row, column) = "S"
    THEN [board |-> b, exc |-> "IllegalMoveException"]
    ELSE [board |-> [b EXCEPT ![row + 1][column + 1] = <<"S", b[row + 1][column + 1][1]>>],
          exc |-> "none"]

\* uncover that passes its checks and leaves the cell as it is
uncover_NoMark(b, row, column) ==
    IF ~checkIndices(row, column)
    THEN [board |-> b, exc |-> "IllegalIndicesException"]
    ELSE IF is_hidden(b, row, column) = "S"
    THEN [board |-> b, exc |-> "IllegalMoveException"]
    ELSE [board |-> b, exc |-> "none"]

\* Board.uncover on board b: the board afterwards and the exception raised
uncover(b, row, column) ==
    IF ~checkIndices(row, column)
    THEN [board |-> b, exc |-> "IllegalIndicesException"]
    ELSE IF is_hidden(b, row, column) = "S"
    THEN [board |-> b, exc |-> "IllegalMoveException"]
    ELSE [board |-> [b EXCEPT ![row + 1][column + 1] = <<b[row + 1][column + 1][1], "S">>],
          exc |-> "none"]

\* ---------------------------------------------------------------- put_mines
\* the while loop that places the mines: the boards it can end with.  A draw
\* (i, j) that hits a mine changes nothing and the loop draws again, so only
\* the draws that hit a mine-free cell lead on.
RECURSIVE place_mines(_, _, _)
place_mines(b, mines_placed, mines) ==
    IF ~(mines_placed < mines)
    THEN {b}
    ELSE UNION { IF ~(get_value(b, i, j) = "*")
                 THEN place_mines([b EXCEPT ![i + 1][j + 1] = <<"*", "H">>],
                                  mines_placed + 1, mines)
                 ELSE {}
                 : i \in 0..(rows - 1), j \in 0..(columns - 1) }

\* mines_touching that looks at the four orthogonal neighbours only
mines_touching_Orthogonal(b, i, j) ==
    LET surrounding_coords == <<<<i + 1, j>>, <<i - 1, j>>, <<i, j - 1>>, <<i, j + 1>>>>
        neighbour_coords == SelectSeq(surrounding_coords,
                                LAMBDA p : p[1] >= 0 /\ p[2] >= 0 /\ p[1] < rows /\ p[2] < columns)
    IN Cardinality({k \in 1..Len(neighbour_coords) :
                        b[neighbour_coords[k][1] + 1][neighbour_coords[k][2] + 1][1] = "*"})

\* the "update digits" loops: the mines touching cell (i, j)
mines_touching(b, i, j) ==
    LET surrounding_coords == <<<<i + 1, j + 1>>, <<i - 1, j - 1>>, <<i + 1, j - 1>>,
                                <<i - 1, j + 1>>, <<i + 1, j>>, <<i - 1, j>>,
                                <<i, j - 1>>, <<i, j + 1>>>>
        neighbour_coords == SelectSeq(surrounding_coords,
                                LAMBDA p : p[1] >= 0 /\ p[2] >= 0 /\ p[1] < rows /\ p[2] < columns)
    IN Cardinality({k \in 1..Len(neighbour_coords) :
                        b[neighbour_coords[k][1] + 1][neighbour_coords[k][2] + 1][1] = "*"})

\* the loops write one cell at a time, but read only which cells hold a mine,
\* which they never change: every cell is computed from the board before them
update_digits(b) ==
    [i \in 1..rows |-> [j \in 1..columns |->
        IF b[i][j][1] # "*"
        THEN <<DigitChar(mines_touching(b, i - 1, j - 1)), "H">>
        ELSE b[i][j]]]

\* start_state that rejects only a cell that is both not '0' and not Hidden
start_state_BothWrong(b) ==
    ~\E i \in 0..(rows - 1), j \in 0..(columns - 1) :
        ~(get_value(b, i, j) = "0") /\ ~(is_hidden(b, i, j) = "H")

\* the board is in its start state: the check loop finds no cell to reject
start_state(b) ==
    ~\E i \in 0..(rows - 1), j \in 0..(columns - 1) :
        ~(get_value(b, i, j) = "0") \/ ~(is_hidden(b, i, j) = "H")

\* put_mines that refuses rows*columns - 1 mines
put_mines_OffByOne(b, mines) ==
    LET MAX_MINES == (rows * columns) - 1
    IN IF mines < MIN_MINES \/ mines >= MAX_MINES
       THEN {[board |-> b, exc |-> "ScatterException"]}
       ELSE IF ~start_state(b)
       THEN {[board |-> b, exc |-> "ScatterException"]}
       ELSE {[board |-> update_digits(p), exc |-> "none"] : p \in place_mines(b, 0, mines)}

\* put_mines without the check of the start state
put_mines_NoStartCheck(b, mines) ==
    LET MAX_MINES == (rows * columns) - 1
    IN IF mines < MIN_MINES \/ mines > MAX_MINES
       THEN {[board |-> b, exc |-> "ScatterException"]}
       ELSE {[board |-> update_digits(p), exc |-> "none"] : p \in place_mines(b, 0, mines)}

\* Board.put_mines on board b: the set of its possible outcomes
put_mines(b, mines) ==
    LET MAX_MINES == (rows * columns) - 1
    IN IF mines < MIN_MINES \/ mines > MAX_MINES
       THEN {[board |-> b, exc |-> "ScatterException"]}
       ELSE IF ~start_state(b)
       THEN {[board |-> b, exc |-> "ScatterException"]}
       ELSE {[board |-> update_digits(p), exc |-> "none"] : p \in place_mines(b, 0, mines)}

\* ---------------------------------------------------------- ripple_sequence
\* get_neighbours that gives the four orthogonal neighbours only
get_neighbours_Orthogonal(cell) ==
    LET r == cell[1]
        c == cell[2]
        all_possible_neighbours == <<<<r - 1, c>>, <<r, c + 1>>, <<r + 1, c>>, <<r, c - 1>>>>
    IN SelectSeq(all_possible_neighbours,
                 LAMBDA p : p[1] >= 0 /\ p[1] < rows /\ p[2] >= 0 /\ p[2] < columns)

\* Board.get_neighbours
get_neighbours(cell) ==
    LET r == cell[1]
        c == cell[2]
        all_possible_neighbours == <<<<r - 1, c>>, <<r - 1, c + 1>>, <<r, c + 1>>,
                                     <<r + 1, c + 1>>, <<r + 1, c>>, <<r + 1, c - 1>>,
                                     <<r, c - 1>>, <<r - 1, c - 1>>>>
    IN SelectSeq(all_possible_neighbours,
                 LAMBDA p : p[1] >= 0 /\ p[1] < rows /\ p[2] >= 0 /\ p[2] < columns)

\* ripple_loop that does not look in the queue before it enqueues
RECURSIVE ripple_loop_NoQueueCheck(_, _, _)
ripple_loop_NoQueueCheck(b, queue, ripple_seq) ==
    IF ~(Len(queue) # 0)
    THEN ripple_seq
    ELSE LET current_cell == Head(queue)
             popped == Tail(queue)
             seq1 == Append(ripple_seq, current_cell)
         IN IF get_value(b, current_cell[1], current_cell[2]) # "0"
            THEN ripple_loop_NoQueueCheck(b, popped, seq1)
            ELSE LET neighbours == get_neighbours(current_cell)
                     hidden_neighbours ==
                         SelectSeq(neighbours, LAMBDA x : is_hidden(b, x[1], x[2]) = "H")
                     new_neighbours ==
                         SelectSeq(hidden_neighbours, LAMBDA x : ~InSeq(x, seq1))
                 IN ripple_loop_NoQueueCheck(b, popped \o new_neighbours, seq1)

\* ripple_loop that stops only at a mine, and expands the nonzero digits
RECURSIVE ripple_loop_ExpandsDigits(_, _, _)
ripple_loop_ExpandsDigits(b, queue, ripple_seq) ==
    IF ~(Len(queue) # 0)
    THEN ripple_seq
    ELSE LET current_cell == Head(queue)
             popped == Tail(queue)
             seq1 == Append(ripple_seq, current_cell)
         IN IF get_value(b, current_cell[1], current_cell[2]) = "*"
            THEN ripple_loop_ExpandsDigits(b, popped, seq1)
            ELSE LET neighbours == get_neighbours(current_cell)
                     hidden_neighbours ==
                         SelectSeq(neighbours, LAMBDA x : is_hidden(b, x[1], x[2]) = "H")
                     new_neighbours ==
                         SelectSeq(hidden_neighbours,
                                   LAMBDA x : ~InSeq(x, seq1) /\ ~InSeq(x, popped))
                 IN ripple_loop_ExpandsDigits(b, popped \o new_neighbours, seq1)

\* ripple_loop that puts the new cells at the front of the queue (a stack)
RECURSIVE ripple_loop_Stack(_, _, _)
ripple_loop_Stack(b, queue, ripple_seq) ==
    IF ~(Len(queue) # 0)
    THEN ripple_seq
    ELSE LET current_cell == Head(queue)
             popped == Tail(queue)
             seq1 == Append(ripple_seq, current_cell)
         IN IF get_value(b, current_cell[1], current_cell[2]) # "0"
            THEN ripple_loop_Stack(b, popped, seq1)
            ELSE LET neighbours == get_neighbours(current_cell)
                     hidden_neighbours ==
                         SelectSeq(neighbours, LAMBDA x : is_hidden(b, x[1], x[2]) = "H")
                     new_neighbours ==
                         SelectSeq(hidden_neighbours,
                                   LAMBDA x : ~InSeq(x, seq1) /\ ~InSeq(x, popped))
                 IN ripple_loop_Stack(b, new_neighbours \o popped, seq1)

\* ripple_loop that queues the uncovered neighbours too
RECURSIVE ripple_loop_NoHiddenFilter(_, _, _)
ripple_loop_NoHiddenFilter(b, queue, ripple_seq) ==
    IF ~(Len(queue) # 0)
    THEN ripple_seq
    ELSE LET current_cell == Head(queue)
             popped == Tail(queue)
             seq1 == Append(ripple_seq, current_cell)
         IN IF get_value(b, current_cell[1], current_cell[2]) # "0"
            THEN ripple_loop_NoHiddenFilter(b, popped, seq1)
            ELSE LET neighbours == get_neighbours(current_cell)
                     new_neighbours ==
                         SelectSeq(neighbours,
                                   LAMBDA x : ~InSeq(x, seq1) /\ ~InSeq(x, popped))
                 IN ripple_loop_NoHiddenFilter(b, popped \o new_neighbours, seq1)

\* the while loop of ripple_sequence over its deque and ripple_seq
RECURSIVE ripple_loop(_, _, _)
ripple_loop(b, queue, ripple_seq) ==
    IF ~(Len(queue) # 0)
    THEN ripple_seq
    ELSE LET current_cell == Head(queue)
             popped == Tail(queue)
             seq1 == Append(ripple_seq, current_cell)
         IN IF get_value(b, current_cell[1], current_cell[2]) # "0"
            THEN ripple_loop(b, popped, seq1)
            ELSE LET neighbours == get_neighbours(current_cell)
                     hidden_neighbours ==
                         SelectSeq(neighbours, LAMBDA x : is_hidden(b, x[1], x[2]) = "H")
                     new_neighbours ==
                         SelectSeq(hidden_neighbours,
                                   LAMBDA x : ~InSeq(x, seq1) /\ ~InSeq(x, popped))
                 IN ripple_loop(b, popped \o new_neighbours, seq1)

\* Board.ripple_sequence on in-range indices: ripple_seq[1:]
ripple_sequence(b, row, column) ==
    Tail(ripple_loop(b, <<<<row, column>>>>, <<>>))

\* --------------------------------------------------------------------- Game
\* get_status that looks for an uncovered mine only after the Win test
get_status_WinFirst(b) ==
    LET Cells0 == (0..(rows - 1)) \X (0..(columns - 1))
        hidden(p) == is_hidden(b, p[1], p[2]) = "H"
        value(p) == get_value(b, p[1], p[2])
        containsUncoveredCell == \E p \in Cells0 : ~hidden(p)
        containsCoveredNonMineCell == \E p \in Cells0 : value(p) # "*" /\ hidden(p)
    IN IF ~containsUncoveredCell
       THEN "NotStarted"
       ELSE IF ~containsCoveredNonMineCell
       THEN "Win"
       ELSE IF \E p \in Cells0 : ~hidden(p) /\ value(p) = "*"
       THEN "Lose"
       ELSE "InProgress"

\* the two nested for loops of get_status from the k-th cell on, in row-major
\* order, with the two flags as they stand, then the tests after the loops
RECURSIVE get_status_scan(_, _, _, _)
get_status_scan(b, k, containsUncoveredCell, containsCoveredNonMineCell) ==
    IF k = rows * columns
    THEN IF ~containsUncoveredCell
         THEN "NotStarted"
         ELSE IF ~containsCoveredNonMineCell
         THEN "Win"
         ELSE "InProgress"
    ELSE LET i == k \div columns
             j == k % columns
             value == get_value(b, i, j)
             hidden == is_hidden(b, i, j) = "H"
         IN IF ~hidden /\ value = "*"
            THEN "Lose"
            ELSE get_status_scan(b, k + 1,
                                 containsUncoveredCell \/ ~hidden,
                                 containsCoveredNonMineCell \/ (value # "*" /\ hidden))

\* Game.get_status on board b
get_status(b) == get_status_scan(b, 0, FALSE, FALSE)

\* uncover_all that leaves the last cell of ripple_seq alone
RECURSIVE uncover_all_SkipsLast(_, _)
uncover_all_SkipsLast(b, ripple_seq) ==
    IF Len(ripple_seq) <= 1
    THEN [board |-> b, exc |-> "none"]
    ELSE LET u == uncover(b, Head(ripple_seq)[1], Head(ripple_seq)[2])
         IN IF u.exc # "none"
            THEN u
            ELSE uncover_all_SkipsLast(u.board, Tail(ripple_seq))

\* the for loop of make_move: uncover the cells of ripple_seq in order, and
\* stop at the first uncover that raises
RECURSIVE uncover_all(_, _)
uncover_all(b, ripple_seq) ==
    IF Len(ripple_seq) = 0
    THEN [board |-> b, exc |-> "none"]
    ELSE LET u == uncover(b, Head(ripple_seq)[1], Head(ripple_seq)[2])
         IN IF u.exc # "none"
            THEN u
            ELSE uncover_all(u.board, Tail(ripple_seq))

\* make_move that ripples from every cell that is not a mine
make_move_RipplesDigits(b, row, column) ==
    LET first == uncover(b, row, column)
    IN IF first.exc # "none"
       THEN [board |-> first.board, exc |-> first.exc, ret |-> None]
       ELSE LET cell_value == get_value(first.board, row, column)
            IN IF cell_value = "*"
               THEN [board |-> first.board, exc |-> "none", ret |-> cell_value]
               ELSE LET ripple_seq ==
                            Tail(ripple_loop_ExpandsDigits(first.board,
                                                           <<<<row, column>>>>, <<>>))
                        rest == uncover_all(first.board, ripple_seq)
                    IN [board |-> rest.board, exc |-> rest.exc,
                        ret |-> IF rest.exc = "none" THEN cell_value ELSE None]

\* Game.make_move on board b: the board afterwards, the exception, the value
make_move(b, row, column) ==
    LET first == uncover(b, row, column)
    IN IF first.exc # "none"
       THEN [board |-> first.board, exc |-> first.exc, ret |-> None]
       ELSE LET cell_value == get_value(first.board, row, column)
            IN IF cell_value # "0"
               THEN [board |-> first.board, exc |-> "none", ret |-> cell_value]
               ELSE LET ripple_seq == ripple_sequence(first.board, row, column)
                        rest == uncover_all(first.board, ripple_seq)
                    IN [board |-> rest.board, exc |-> rest.exc,
                        ret |-> IF rest.exc = "none" THEN cell_value ELSE None]

\* --------------------------------------------------------------- load_board
\* A line is the sequence of its characters.
\* str.strip(): drop the whitespace at both ends
IsSpace(ch) == ch \in {" ", "\t", "\n", "\r", "\f"}

RECURSIVE lstrip(_)
lstrip(s) == IF Len(s) > 0 /\ IsSpace(Head(s)) THEN lstrip(Tail(s)) ELSE s

RECURSIVE rstrip(_)
rstrip(s) ==
    IF Len(s) > 0 /\ IsSpace(s[Len(s)]) THEN rstrip(SubSeq(s, 1, Len(s) - 1)) ELSE s

strip(s) == rstrip(lstrip(s))

\* str.split(' '): cut at every single space; two spaces in a row give an
\* empty piece.  piece is the piece being read when s remains.
RECURSIVE split_from(_, _)
split_from(s, piece) ==
    IF Len(s) = 0
    THEN <<piece>>
    ELSE IF Head(s) = " "
    THEN <<piece>> \o split_from(Tail(s), <<>>)
    ELSE split_from(Tail(s), Append(piece, Head(s)))

split(s) == split_from(s, <<>>)

validX == {DigitChar(x) : x \in 0..8} \cup {"*"}
validY == {"H", "S"}

\* the checks of one cell: TRUE when it raises BoardFormatException
bad_cell(cell) ==
    IF Len(cell) # 2
    THEN TRUE
    ELSE cell[1] \notin validX \/ cell[2] \notin validY

\* the for loop of load_board over the lines left, then the two checks after
\* it; b is self.board so far
RECURSIVE load_loop(_, _, _)
load_loop(ls, b, nRows) ==
    IF Len(ls) = 0
    THEN IF nRows = 0
         THEN [board |-> b, exc |-> "BoardFormatException"]
         ELSE IF nRows # rows
         THEN [board |-> b, exc |-> "DimensionsMismatchException"]
         ELSE [board |-> b, exc |-> "none"]
    ELSE LET l == strip(Head(ls))
         IN IF Len(l) = 0
            THEN load_loop(Tail(ls), b, nRows)
            ELSE LET row == split(l)
                 IN IF \E k \in 1..Len(row) : bad_cell(row[k])
                    THEN [board |-> b, exc |-> "BoardFormatException"]
                    ELSE IF Len(row) # columns
                    THEN [board |-> b, exc |-> "DimensionsMismatchException"]
                    ELSE load_loop(Tail(ls), Append(b, row), nRows + 1)

\* Board.load_board: self.board = [] and the loop
load_board(ls) == load_loop(ls, <<>>, 0)

\* --------------------------------------------------------------- save_board
\* save_cells that writes the cells of a row with nothing between them
RECURSIVE save_cells_NoSpace(_, _)
save_cells_NoSpace(row, j) ==
    IF j > Len(row) THEN <<"\n">> ELSE row[j] \o save_cells_NoSpace(row, j + 1)

\* the text save_board writes for row i (1-based here): every cell followed
\* by one space, then the newline
RECURSIVE save_cells(_, _)
save_cells(row, j) ==
    IF j > Len(row) THEN <<"\n">> ELSE row[j] \o <<" ">> \o save_cells(row, j + 1)

\* the row lines of the file save_board writes, after its two dimension lines
save_rows(b) == [i \in 1..rows |-> save_cells(b[i], 1)]

\* str(n) of a natural number: its decimal digits
DecimalDigit(d) == <<"0", "1", "2", "3", "4", "5", "6", "7", "8", "9">>[d + 1]

RECURSIVE str(_)
str(n) ==
    IF n < 10 THEN <<DecimalDigit(n)>> ELSE str(n \div 10) \o <<DecimalDigit(n % 10)>>

\* the lines of the file save_board writes: the two dimension lines, then the
\* rows
save_board(b) ==
    <<str(rows) \o <<"\n">>, str(columns) \o <<"\n">>>> \o save_rows(b)

\* ----------------------------------------------------------------- actions
\* the arguments tried for a (row, column) pair: every cell and the
\* positions just outside each edge
RowArgs == -1..rows
ColArgs == -1..columns

\* the mine counts tried: 0 (too few), the small counts, and the two counts
\* around MAX_MINES
MinesArgs == (0..MaxMinesArg) \cup {(rows * columns) - 1, rows * columns}

\* the input lines tried
LineBlank == <<" ", "\t", "\n">>
LineSaved == <<"1", "S", " ", "*", "H", " ", "\n">>
LineZeros == <<" ", "0", "H", " ", "0", "H", "\n">>
LineThree == <<"0", "S", " ", "0", "H", " ", "0", "H", "\n">>
LineBadY == <<"0", "H", " ", "1", "X", "\n">>
LineBadX == <<"9", "H", "\n">>
LineBadLen == <<"0", "H", " ", " ", "0", "H", "\n">>

LineSet == {LineBlank, LineSaved, LineZeros, LineThree, LineBadY, LineBadX, LineBadLen}

LinesArgs == UNION {[1..n -> LineSet] : n \in 0..MaxLines}

\* load_board may leave self.board partly copied when it raises (its
\* docstring), and main() gives the board up then.  The other methods are
\* modelled on a board that holds its rows x columns cells.
Stable == Len(board) = rows

Call_put_mines(mines) ==
    /\ Stable
    /\ \E r \in put_mines(board, mines) :
        /\ board' = r.board
        /\ exc' = r.exc
        /\ ret' = None
        /\ op' = "put_mines"
        /\ frame' = NoFrame
        /\ lines' = None
        /\ seeded' = IF r.exc = "none" THEN "put_mines" ELSE seeded
        /\ UNCHANGED <<rows, columns>>

Call_load_board(ls) ==
    LET r == load_board(ls)
    IN /\ board' = r.board
       /\ exc' = r.exc
       /\ ret' = None
       /\ op' = "load_board"
       /\ frame' = NoFrame
       /\ lines' = ls
       /\ seeded' = IF r.exc = "none" THEN "load_board" ELSE seeded
       /\ UNCHANGED <<rows, columns>>

\* save_board: the file written is kept in lines; the board is only read.
\* Opening or writing the file can fail, and every failure becomes IOError.
Call_save_board ==
    /\ Stable
    /\ \/ /\ exc' = "none"
          /\ lines' = save_board(board)
       \/ /\ exc' = "IOError"
          /\ lines' = None
    /\ op' = "save_board"
    /\ frame' = NoFrame
    /\ ret' = None
    /\ UNCHANGED <<rows, columns, board, seeded>>

\* load_board of the file just saved, on a board of the same dimensions: the
\* lines after the two dimension lines
Call_load_saved ==
    /\ op = "save_board"
    /\ exc = "none"
    /\ Call_load_board(SubSeq(lines, 3, Len(lines)))

Call_uncover(row, column) ==
    /\ Stable
    /\ LET r == uncover(board, row, column)
       IN /\ board' = r.board
          /\ exc' = r.exc
          /\ ret' = None
          /\ op' = "uncover"
          /\ frame' = NoFrame
          /\ lines' = None
          /\ UNCHANGED <<rows, columns, seeded>>

Call_ripple_sequence(row, column) ==
    /\ Stable
    /\ exc' = IF checkIndices(row, column) THEN "none" ELSE "IllegalIndicesException"
    /\ ret' = IF checkIndices(row, column) THEN ripple_sequence(board, row, column) ELSE None
    /\ op' = "ripple_sequence"
    /\ frame' = NoFrame
    /\ lines' = None
    /\ UNCHANGED <<rows, columns, board, seeded>>

Call_get_status ==
    /\ Stable
    /\ exc' = "none"
    /\ ret' = get_status(board)
    /\ op' = "get_status"
    /\ frame' = NoFrame
    /\ lines' = None
    /\ UNCHANGED <<rows, columns, board, seeded>>

Call_make_move(row, column) ==
    /\ Stable
    /\ LET r == make_move(board, row, column)
       IN /\ board' = r.board
          /\ exc' = r.exc
          /\ ret' = r.ret
          /\ op' = "make_move"
          /\ frame' = NoFrame
          /\ lines' = None
          /\ UNCHANGED <<rows, columns, seeded>>

\* the state after Board(rows, columns) and Game(board)
Constructed ==
    /\ board = Board__init__(rows, columns)
    /\ op = "__init__"
    /\ frame = NoFrame
    /\ exc = "none"
    /\ ret = None
    /\ lines = None
    /\ seeded = "no"

Init ==
    /\ rows \in MIN_ROWS..MaxRows
    /\ columns \in MIN_COLS..MaxCols
    /\ rows * columns <= MaxCells
    /\ Constructed

Next ==
    \/ \E mines \in MinesArgs : Call_put_mines(mines)
    \/ \E row \in RowArgs, column \in ColArgs : Call_uncover(row, column)
    \/ \E row \in RowArgs, column \in ColArgs : Call_ripple_sequence(row, column)
    \/ \E row \in RowArgs, column \in ColArgs : Call_make_move(row, column)
    \/ Call_get_status

\* a board placed by put_mines and played
Spec == Init /\ [][Next]_vars

InitLoad ==
    /\ rows \in MIN_ROWS..MaxRows
    /\ columns \in MIN_COLS..MaxCols
    /\ rows * columns <= MaxCellsLoad
    /\ Constructed

NextLoad ==
    \/ \E ls \in LinesArgs : Call_load_board(ls)
    \/ \E mines \in MinesArgs : Call_put_mines(mines)
    \/ \E row \in RowArgs, column \in ColArgs : Call_uncover(row, column)
    \/ \E row \in RowArgs, column \in ColArgs : Call_ripple_sequence(row, column)
    \/ \E row \in RowArgs, column \in ColArgs : Call_make_move(row, column)
    \/ Call_get_status

\* a board loaded from lines, or placed, and played
SpecLoad == InitLoad /\ [][NextLoad]_vars

InitSave ==
    /\ rows \in MIN_ROWS..MaxRows
    /\ columns \in MIN_COLS..MaxCols
    /\ rows * columns <= MaxCellsSave
    /\ Constructed

NextSave ==
    \/ \E mines \in MinesArgs : Call_put_mines(mines)
    \/ \E row \in RowArgs, column \in ColArgs : Call_uncover(row, column)
    \/ \E row \in RowArgs, column \in ColArgs : Call_make_move(row, column)
    \/ Call_save_board
    \/ Call_load_saved

\* a placed and played board, saved and loaded again
SpecSave == InitSave /\ [][NextSave]_vars

InitGame ==
    /\ rows \in MIN_ROWS..MaxRowsGame
    /\ columns \in MIN_COLS..MaxColsGame
    /\ rows * columns <= MaxCellsGame
    /\ Constructed

NextGame ==
    \/ \E mines \in MinesArgs : Call_put_mines(mines)
    \/ \E row \in RowArgs, column \in ColArgs : Call_make_move(row, column)
    \/ Call_get_status

\* a game: a constructed board, put_mines or not, and moves
SpecGame == InitGame /\ [][NextGame]_vars

\* the sizes tried for Board(rows, columns): every legal size and the sizes
\* up to SizeSlack outside each limit
RowSizes == (MIN_ROWS - 1 - SizeSlack)..(MAX_ROWS + SizeSlack)
ColSizes == (MIN_COLS - 1 - SizeSlack)..(MAX_COLS + SizeSlack)

\* size_out_of_bound that tests the columns against the least number of rows
size_out_of_bound_ColumnsAsRows(r, c) ==
    r < MIN_ROWS \/ r > MAX_ROWS \/ c < MIN_ROWS \/ c > MAX_COLS

\* the test of Board.__init__ on its arguments: TRUE when it raises
size_out_of_bound(r, c) ==
    r < MIN_ROWS \/ r > MAX_ROWS \/ c < MIN_COLS \/ c > MAX_COLS

\* Board(r, c): the constructor, run once; when it raises there is no board
Call_Board__init__(r, c) ==
    /\ op = "start"
    /\ op' = "__init__"
    /\ frame' = NoFrame
    /\ ret' = None
    /\ lines' = None
    /\ seeded' = "no"
    /\ IF size_out_of_bound(r, c)
       THEN /\ exc' = "SizeOutOfBoundException"
            /\ UNCHANGED <<rows, columns, board>>
       ELSE /\ exc' = "none"
            /\ rows' = r
            /\ columns' = c
            /\ board' = Board__init__(r, c)

\* before the constructor is called
InitCtor ==
    /\ rows = 0
    /\ columns = 0
    /\ board = <<>>
    /\ op = "start"
    /\ frame = NoFrame
    /\ exc = "none"
    /\ ret = None
    /\ lines = None
    /\ seeded = "no"

NextCtor ==
    \E r \in RowSizes, c \in ColSizes : Call_Board__init__(r, c)

\* the constructor on any size
SpecCtor == InitCtor /\ [][NextCtor]_vars

\* ------------------------------------------------------- the loops, by step
\* one turn of the while loop of put_mines that draws (i, j) and does not
\* count the mine it places
put_mines_draw_NoCount(b, mines_placed, i, j) ==
    IF ~(get_value(b, i, j) = "*")
    THEN [board |-> [b EXCEPT ![i + 1][j + 1] = <<"*", "H">>],
          mines_placed |-> mines_placed]
    ELSE [board |-> b, mines_placed |-> mines_placed]

\* one turn of the while loop of put_mines, when randint draws (i, j)
put_mines_draw(b, mines_placed, i, j) ==
    IF ~(get_value(b, i, j) = "*")
    THEN [board |-> [b EXCEPT ![i + 1][j + 1] = <<"*", "H">>],
          mines_placed |-> mines_placed + 1]
    ELSE [board |-> b, mines_placed |-> mines_placed]

\* one turn of the while loop of ripple_sequence
ripple_turn(b, queue, ripple_seq) ==
    LET current_cell == Head(queue)
        popped == Tail(queue)
        seq1 == Append(ripple_seq, current_cell)
    IN IF get_value(b, current_cell[1], current_cell[2]) # "0"
       THEN [queue |-> popped, ripple_seq |-> seq1]
       ELSE LET neighbours == get_neighbours(current_cell)
                hidden_neighbours ==
                    SelectSeq(neighbours, LAMBDA x : is_hidden(b, x[1], x[2]) = "H")
                new_neighbours ==
                    SelectSeq(hidden_neighbours,
                              LAMBDA x : ~InSeq(x, seq1) /\ ~InSeq(x, popped))
            IN [queue |-> popped \o new_neighbours, ripple_seq |-> seq1]

\* put_mines up to its while loop: the two checks, then mines_placed = 0
Begin_put_mines(mines) ==
    /\ Stable
    /\ frame = NoFrame
    /\ op' = "put_mines"
    /\ ret' = None
    /\ lines' = None
    /\ IF mines < MIN_MINES \/ mines > (rows * columns) - 1 \/ ~start_state(board)
       THEN /\ exc' = "ScatterException"
            /\ frame' = NoFrame
       ELSE /\ exc' = "none"
            /\ frame' = [loop |-> "put_mines", mines |-> mines, mines_placed |-> 0]
    /\ UNCHANGED <<rows, columns, board, seeded>>

\* one turn of the while loop of put_mines; randint draws i in 0..rows-1 and
\* j in 0..columns-1
Turn_put_mines(i, j) ==
    /\ frame.loop = "put_mines"
    /\ frame.mines_placed < frame.mines
    /\ i \in 0..(rows - 1)
    /\ j \in 0..(columns - 1)
    /\ LET d == put_mines_draw(board, frame.mines_placed, i, j)
       IN /\ board' = d.board
          /\ frame' = [frame EXCEPT !.mines_placed = d.mines_placed]
    /\ UNCHANGED <<rows, columns, op, exc, ret, lines, seeded>>

\* put_mines after its while loop: the digits, and the return
End_put_mines ==
    /\ frame.loop = "put_mines"
    /\ ~(frame.mines_placed < frame.mines)
    /\ board' = update_digits(board)
    /\ seeded' = "put_mines"
    /\ frame' = NoFrame
    /\ UNCHANGED <<rows, columns, op, exc, ret, lines>>

\* ripple_sequence up to its while loop
Begin_ripple_sequence(row, column) ==
    /\ Stable
    /\ frame = NoFrame
    /\ op' = "ripple_sequence"
    /\ ret' = None
    /\ lines' = None
    /\ IF ~checkIndices(row, column)
       THEN /\ exc' = "IllegalIndicesException"
            /\ frame' = NoFrame
       ELSE /\ exc' = "none"
            /\ frame' = [loop |-> "ripple_sequence",
                         queue |-> <<<<row, column>>>>, ripple_seq |-> <<>>]
    /\ UNCHANGED <<rows, columns, board, seeded>>

\* one turn of the while loop of ripple_sequence
Turn_ripple_sequence ==
    /\ frame.loop = "ripple_sequence"
    /\ Len(frame.queue) # 0
    /\ LET t == ripple_turn(board, frame.queue, frame.ripple_seq)
       IN frame' = [frame EXCEPT !.queue = t.queue, !.ripple_seq = t.ripple_seq]
    /\ UNCHANGED <<rows, columns, board, op, exc, ret, lines, seeded>>

\* ripple_sequence after its while loop: return ripple_seq[1:]
End_ripple_sequence ==
    /\ frame.loop = "ripple_sequence"
    /\ ~(Len(frame.queue) # 0)
    /\ ret' = Tail(frame.ripple_seq)
    /\ frame' = NoFrame
    /\ UNCHANGED <<rows, columns, board, op, exc, lines, seeded>>

\* uncover between two calls that run step by step
Uncover_between(row, column) ==
    /\ frame = NoFrame
    /\ Call_uncover(row, column)

InitSteps ==
    /\ rows \in MIN_ROWS..MaxRowsSteps
    /\ columns \in MIN_COLS..MaxColsSteps
    /\ rows * columns <= MaxCellsSteps
    /\ Constructed

NextSteps ==
    \/ \E mines \in MinesArgs : Begin_put_mines(mines)
    \/ \E i \in 0..(MaxRowsSteps - 1), j \in 0..(MaxColsSteps - 1) : Turn_put_mines(i, j)
    \/ End_put_mines
    \/ \E row \in RowArgs, column \in ColArgs : Begin_ripple_sequence(row, column)
    \/ Turn_ripple_sequence
    \/ End_ripple_sequence
    \/ \E row \in RowArgs, column \in ColArgs : Uncover_between(row, column)

\* put_mines and ripple_sequence run one loop turn at a time
SpecSteps == InitSteps /\ [][NextSteps]_vars

\* the program keeps running: a loop that can take a turn or end does so; and
\* the draws are fair: a cell whose draw would place a mine is drawn in the end
SpecStepsFair ==
    /\ SpecSteps
    /\ WF_vars(End_put_mines)
    /\ WF_vars(Turn_ripple_sequence)
    /\ WF_vars(End_ripple_sequence)
    /\ \A i \in 0..(MaxRowsSteps - 1), j \in 0..(MaxColsSteps - 1) :
          WF_vars(Turn_put_mines(i, j))

\* ------------------------------------------------------------------ Game.run
\* the test of Game.run on the status before it offers and takes a move, with
\* the test left out
may_move_Always(status) == status = status

\* the test of Game.run on the status before it offers and takes a move
may_move(status) == status = "NotStarted" \/ status = "InProgress"

IsDigit(ch) == ch \in {"0", "1", "2", "3", "4", "5", "6", "7", "8", "9"}

\* the value of a string of digits read so far as acc
RECURSIVE digits_value(_, _)
digits_value(s, acc) ==
    IF Len(s) = 0
    THEN acc
    ELSE digits_value(Tail(s),
                      (acc * 10) + (CHOOSE d \in 0..9 : DecimalDigit(d) = Head(s)))

\* int(s) of a string: white space around, one optional sign, then digits
\* only; ok is FALSE when it raises ValueError
int(s) ==
    LET t == strip(s)
        signed == Len(t) > 0 /\ Head(t) \in {"-", "+"}
        body == IF signed THEN Tail(t) ELSE t
    IN IF Len(body) = 0 \/ \E k \in 1..Len(body) : ~IsDigit(body[k])
       THEN [ok |-> FALSE, value |-> 0]
       ELSE [ok |-> TRUE,
             value |-> IF signed /\ Head(t) = "-"
                       THEN 0 - digits_value(body, 0)
                       ELSE digits_value(body, 0)]

\* r, c = move.split(' ') and the two int(): ok is FALSE when one raises
parse_move(move) ==
    LET parts == split(move)
    IN IF Len(parts) # 2
       THEN [ok |-> FALSE, r |-> 0, c |-> 0]
       ELSE [ok |-> int(parts[1]).ok /\ int(parts[2]).ok,
             r |-> int(parts[1]).value,
             c |-> int(parts[2]).value]

\* what is typed for an integer
typed(n) == IF n < 0 THEN <<"-">> \o str(0 - n) ELSE str(n)

\* the moves typed: every pair of RowArgs x ColArgs, and lines that are not
\* two integers
MoveInputs ==
    {typed(row) \o <<" ">> \o typed(column) : row \in RowArgs, column \in ColArgs}
    \cup {<<>>, <<"0">>, <<"0", " ", " ", "1">>, <<"a", " ", "0">>, <<"0", " ", "1", " ">>}

\* main without an input file: put_mines on the board just constructed
Main_put_mines(mines) ==
    /\ op = "__init__"
    /\ Call_put_mines(mines)

\* Game.run has been entered (main returns without it when put_mines raises)
\* and its loop has not returned
Running ==
    /\ Stable
    /\ op \notin {"__init__", "exit"}
    /\ ~(op = "put_mines" /\ exc # "none")

\* one turn of the loop with selection '1': save_board, whose failure is
\* caught, and the message printed after it either way
Run_save ==
    /\ Running
    /\ \/ lines' = save_board(board)
       \/ lines' = None
    /\ op' = "save_board"
    /\ exc' = "none"
    /\ ret' = "Save operation done"
    /\ frame' = NoFrame
    /\ UNCHANGED <<rows, columns, board, seeded>>

\* one turn of the loop with selection '2': run returns
Run_exit ==
    /\ Running
    /\ op' = "exit"
    /\ exc' = "none"
    /\ ret' = "Goodbye :)"
    /\ lines' = None
    /\ frame' = NoFrame
    /\ UNCHANGED <<rows, columns, board, seeded>>

\* one turn of the loop with selection '3' and the line move typed for the
\* move: op is make_move when make_move was called, exc the exception run
\* caught, ret the message printed
Run_move(move) ==
    /\ Running
    /\ lines' = None
    /\ frame' = NoFrame
    /\ LET status == get_status(board)
           m == parse_move(move)
       IN IF may_move(status)
          THEN IF m.ok
               THEN LET r == make_move(board, m.r, m.c)
                    IN /\ board' = r.board
                       /\ op' = "make_move"
                       /\ exc' = r.exc
                       /\ ret' = IF r.exc = "none" THEN None ELSE "Illegal move values"
               ELSE /\ board' = board
                    /\ op' = "run"
                    /\ exc' = "ValueError"
                    /\ ret' = "Illegal move values"
          ELSE /\ board' = board
               /\ op' = "run"
               /\ exc' = "none"
               /\ ret' = "Illegal choice"
    /\ UNCHANGED <<rows, columns, seeded>>

\* one turn of the loop with any other selection
Run_other ==
    /\ Running
    /\ op' = "run"
    /\ exc' = "none"
    /\ ret' = "Illegal choice"
    /\ lines' = None
    /\ frame' = NoFrame
    /\ UNCHANGED <<rows, columns, board, seeded>>

\* the cells of the boards loaded at the start of SpecAny
CellSet == {<<"0", "H">>, <<"0", "S">>, <<"1", "H">>, <<"*", "H">>}

\* main after Board(rows, columns): the board as constructed, put_mines still
\* to come, or the board loaded from the input file
InitRun ==
    /\ rows \in MIN_ROWS..MaxRows
    /\ columns \in MIN_COLS..MaxCols
    /\ rows * columns <= MaxCellsRun
    /\ \/ Constructed
       \/ /\ \E g \in [1..rows -> [1..columns -> CellSet]] :
                /\ lines = save_rows(g)
                /\ load_board(lines).exc = "none"
                /\ board = load_board(lines).board
          /\ op = "load_board"
          /\ exc = "none"
          /\ ret = None
          /\ seeded = "load_board"
          /\ frame = NoFrame

NextRun ==
    \/ \E mines \in MinesArgs : Main_put_mines(mines)
    \/ Run_save
    \/ Run_exit
    \/ \E move \in MoveInputs : Run_move(move)
    \/ Run_other

\* the game loop
SpecRun == InitRun /\ [][NextRun]_vars

\* the state after Board(rows, columns) and a load_board of the rows of a
\* saved board: the digits of a loaded board are whatever the file says
InitAny ==
    /\ rows \in MIN_ROWS..MaxRows
    /\ columns \in MIN_COLS..MaxCols
    /\ rows * columns <= MaxCellsAny
    /\ \E g \in [1..rows -> [1..columns -> CellSet]] :
          /\ lines = save_rows(g)
          /\ load_board(lines).exc = "none"
          /\ board = load_board(lines).board
    /\ op = "load_board"
    /\ frame = NoFrame
    /\ exc = "none"
    /\ ret = None
    /\ seeded = "load_board"

NextAny ==
    \/ \E row \in RowArgs, column \in ColArgs : Call_ripple_sequence(row, column)
    \/ Call_get_status

\* any loaded board, queried
SpecAny == InitAny /\ [][NextAny]_vars

\* the state after Board(rows, columns) and a load_board of the rows of a
\* saved board of at most MaxCellsMove cells
InitMove ==
    /\ rows \in MIN_ROWS..MaxRows
    /\ columns \in MIN_COLS..MaxCols
    /\ rows * columns <= MaxCellsMove
    /\ \E g \in [1..rows -> [1..columns -> CellSet]] :
          /\ lines = save_rows(g)
          /\ load_board(lines).exc = "none"
          /\ board = load_board(lines).board
    /\ op = "load_board"
    /\ frame = NoFrame
    /\ exc = "none"
    /\ ret = None
    /\ seeded = "load_board"

NextMove ==
    \E row \in RowArgs, column \in ColArgs : Call_make_move(row, column)

\* any loaded board, played
SpecMove == InitMove /\ [][NextMove]_vars

\* ---------------------------------------------------------- counted moves
\* Game.make_move, with the number of the calls that returned so far kept in
\* frame.moves (history); the count stops the play one past rows * columns.
\* ret is the value returned as a string of one character, <<>> when it raised
Play_make_move(row, column) ==
    /\ Stable
    /\ frame.loop = "play"
    /\ frame.moves <= rows * columns
    /\ LET r == make_move(board, row, column)
       IN /\ board' = r.board
          /\ exc' = r.exc
          /\ ret' = IF r.exc = "none" THEN <<r.ret>> ELSE None
          /\ op' = "make_move"
          /\ lines' = None
          /\ frame' = [frame EXCEPT !.moves = IF r.exc = "none" THEN @ + 1 ELSE @]
          /\ UNCHANGED <<rows, columns, seeded>>

\* a make_move that returns, made while the game is not over: what the
\* player keeps doing, as seen on the step (the call, no exception, one more
\* move counted)
Play_good_move ==
    /\ may_move(get_status(board))
    /\ op' = "make_move"
    /\ exc' = "none"
    /\ frame' = [frame EXCEPT !.moves = @ + 1]

\* the state after Board(rows, columns) and a load_board of the rows of a
\* saved board of at most MaxCellsPlay cells, no move made yet
InitPlay ==
    /\ rows \in MIN_ROWS..MaxRows
    /\ columns \in MIN_COLS..MaxCols
    /\ rows * columns <= MaxCellsPlay
    /\ \E g \in [1..rows -> [1..columns -> CellSet]] :
          /\ lines = save_rows(g)
          /\ load_board(lines).exc = "none"
          /\ board = load_board(lines).board
    /\ op = "load_board"
    /\ exc = "none"
    /\ ret = None
    /\ seeded = "load_board"
    /\ frame = [loop |-> "play", moves |-> 0]

NextPlay ==
    \E row \in RowArgs, column \in ColArgs : Play_make_move(row, column)

\* any loaded board, played with the moves counted
SpecPlay == InitPlay /\ [][NextPlay]_vars

\* the player keeps making moves that return while the game is not over
SpecPlayFair == SpecPlay /\ WF_frame(Play_good_move)

\* ===================================================================== claims
\* reference notions the claims are stated in, independent of the program's
\* own loops
Cells == (0..(rows - 1)) \X (0..(columns - 1))
Content(b, p) == b[p[1] + 1][p[2] + 1][1]
Revealed(b, p) == b[p[1] + 1][p[2] + 1][2] = "S"
IsMine(b, p) == Content(b, p) = "*"
Abs(x) == IF x < 0 THEN -x ELSE x
Adjacent(p, q) == p # q /\ Abs(p[1] - q[1]) <= 1 /\ Abs(p[2] - q[2]) <= 1
\* the number a digit character stands for
DigitValue(ch) == CHOOSE n \in 0..8 : DigitChar(n) = ch
ContentKept == \A p \in Cells : Content(board', p) = Content(board, p)
NoneHiddenAgain == \A p \in Cells : Revealed(board, p) => Revealed(board', p)
Status == get_status(board)

\* C1 (as claimed): once get_status() returns Lose or Win, no make_move call,
\* whatever its row and column, changes what get_status() returns.
C1_StatusAbsorbing ==
    [][(op' = "make_move" /\ Status \in {"Lose", "Win"}) => Status' = Status]_vars

\* C1 (amended): Lose is absorbing under make_move.  At Win a make_move that
\* raises leaves the status Win, and a make_move that succeeds (its cell is a
\* Hidden mine, the only Hidden cells left) returns '*' and makes it Lose.
C1_LoseAbsorbingWinToLose ==
    [][op' = "make_move" =>
          /\ (Status = "Lose" => Status' = "Lose")
          /\ (Status = "Win" =>
                \/ exc' # "none" /\ Status' = "Win" /\ board' = board
                \/ exc' = "none" /\ ret' = "*" /\ Status' = "Lose")]_vars

\* a make_move has just uncovered the only uncovered mine of a board whose
\* mine-free cells were all uncovered before it: the status was Win, is Lose
C1_Witness ==
    /\ op = "make_move" /\ exc = "none" /\ ret = "*"
    /\ Status = "Lose"
    /\ Cardinality({p \in Cells : IsMine(board, p) /\ Revealed(board, p)}) = 1
    /\ \A p \in Cells : ~IsMine(board, p) => Revealed(board, p)

\* C4: an uncover or make_move call, raising or not, keeps every cell's
\* content and never turns a Revealed cell Hidden.
C4_ContentFixedRevealOneWay ==
    [][op' \in {"uncover", "make_move"} => ContentKept /\ NoneHiddenAgain]_vars

\* on a board seeded by put_mines, a make_move has uncovered cells
C4_Witness ==
    /\ seeded = "put_mines" /\ op = "make_move" /\ exc = "none"
    /\ \E p \in Cells : Revealed(board, p) /\ IsMine(board, p)
    /\ \E p \in Cells : Revealed(board, p) /\ ~IsMine(board, p)

\* C5: after a put_mines(k) that succeeded, exactly k cells hold a mine, every
\* other cell holds the digit of the number of 8-adjacent in-bounds cells
\* that hold a mine, and every cell is Hidden.
C5_PlacedBoard ==
    [][\A k \in MinesArgs :
          (Call_put_mines(k) /\ exc' = "none") =>
             /\ 1 <= k /\ k <= (rows * columns) - 1
             /\ Cardinality({p \in Cells : IsMine(board', p)}) = k
             /\ \A p \in Cells :
                   /\ ~Revealed(board', p)
                   /\ ~IsMine(board', p) =>
                        DigitValue(Content(board', p)) =
                            Cardinality({q \in Cells : Adjacent(p, q) /\ IsMine(board', q)})]_vars

\* put_mines has just placed two mines next to one cell
C5_Witness ==
    /\ op = "put_mines" /\ exc = "none"
    /\ \E p \in Cells : Content(board, p) = "2"
    /\ \A p \in Cells : ~Revealed(board, p)

\* C6: put_mines(count) raises ScatterException exactly when count < 1, or
\* count > rows*columns - 1, or some cell is not '0' and Hidden; and when it
\* raises the board is what it was.
C6_ScatterExactly ==
    [][\A count \in MinesArgs :
          Call_put_mines(count) =>
             /\ exc' \in {"none", "ScatterException"}
             /\ exc' = "ScatterException" <=>
                   \/ count < 1
                   \/ count > (rows * columns) - 1
                   \/ \E p \in Cells : Content(board, p) # "0" \/ Revealed(board, p)
             /\ exc' # "none" => board' = board]_vars

\* put_mines, with a count that is in range, has raised on a board with an
\* uncovered cell and no mine
C6_Witness ==
    /\ op = "put_mines" /\ exc = "ScatterException"
    /\ seeded = "no"
    /\ \E p \in Cells : Revealed(board, p)

\* C7: once a put_mines call has succeeded, every later put_mines call raises
\* ScatterException, whatever its count and whatever uncover and make_move
\* calls came between.
C7_SecondPutMinesFails ==
    [][(seeded = "put_mines" /\ op' = "put_mines") => exc' = "ScatterException"]_vars

\* a put_mines has raised on a board placed earlier, all of it still Hidden
C7_Witness ==
    /\ seeded = "put_mines" /\ op = "put_mines" /\ exc = "ScatterException"
    /\ \A p \in Cells : ~Revealed(board, p)

\* ---- ripple_sequence against a reference that is no traversal
SeqSet(q) == {q[k] : k \in 1..Len(q)}
NoRepeat(q) == \A i, j \in 1..Len(q) : q[i] = q[j] => i = j
Pos(q, x) == CHOOSE k \in 1..Len(q) : q[k] = x

\* one step of the chains of C9: the Hidden cells next to a '0' cell of R
ChainStep(b, R) ==
    {q \in Cells : ~Revealed(b, q) /\ \E p \in R : Content(b, p) = "0" /\ Adjacent(p, q)}

\* the cells a chain from start reaches, start included
RECURSIVE ChainClosure(_, _)
ChainClosure(b, R) ==
    IF ChainStep(b, R) \subseteq R THEN R ELSE ChainClosure(b, R \cup ChainStep(b, R))

\* the cells whose shortest chain from start has n links, for n = 0, 1, ...
RECURSIVE Layer(_, _, _)
Layer(b, start, n) ==
    IF n = 0
    THEN {start}
    ELSE ChainStep(b, Layer(b, start, n - 1))
            \ UNION {Layer(b, start, m) : m \in 0..(n - 1)}

DepthOf(b, start, x) == CHOOSE n \in 0..(rows * columns) : x \in Layer(b, start, n)

\* the eight directions clockwise from above, as the claim lists them
Clockwise == <<<<-1, 0>>, <<-1, 1>>, <<0, 1>>, <<1, 1>>, <<1, 0>>, <<1, -1>>, <<0, -1>>, <<-1, -1>>>>
ClockIndex(p, x) == CHOOSE k \in 1..8 : x = <<p[1] + Clockwise[k][1], p[2] + Clockwise[k][2]>>
HiddenAround(b, p) ==
    SelectSeq([k \in 1..8 |-> <<p[1] + Clockwise[k][1], p[2] + Clockwise[k][2]>>],
              LAMBDA x : x \in Cells /\ ~Revealed(b, x))

\* C8: ripple_sequence(row, column) changes no cell; a second call with the
\* same start on the board it leaves returns the same sequence; no coordinate
\* is in the sequence twice, and the start is not in it.
C8_RipplePure ==
    [][op' = "ripple_sequence" =>
          \A row \in RowArgs, column \in ColArgs :
             (Call_ripple_sequence(row, column) /\ exc' = "none") =>
                /\ board' = board
                /\ ret' = ripple_sequence(board', row, column)
                /\ NoRepeat(ret')
                /\ <<row, column>> \notin SeqSet(ret')]_vars

\* a ripple_sequence call has returned more than half of a six-cell board
C8_Witness ==
    /\ op = "ripple_sequence" /\ exc = "none"
    /\ Len(ret) >= 4

\* C9: the cells ripple_sequence(s) returns are exactly the cells other than
\* s that a chain of 8-adjacent cells from s reaches, every cell of the chain
\* but the last being '0' and every cell but the first Hidden; so nothing is
\* returned from a start that is a nonzero digit or a mine.
C9_RippleIsChainClosure ==
    \A s \in Cells :
        /\ SeqSet(ripple_sequence(board, s[1], s[2])) = ChainClosure(board, {s}) \ {s}
        /\ Content(board, s) # "0" => ripple_sequence(board, s[1], s[2]) = <<>>

\* a ripple_sequence call has returned a mine, a nonzero digit and a '0'
\* cell two links away from the start
C9_Witness ==
    /\ op = "ripple_sequence" /\ exc = "none"
    /\ \E x \in SeqSet(ret) : Content(board, x) = "*"
    /\ \E x \in SeqSet(ret) : Content(board, x) = "1"
    /\ \E s \in Cells :
          /\ ret = ripple_sequence(board, s[1], s[2])
          /\ \E x \in SeqSet(ret) : Content(board, x) = "0" /\ ~Adjacent(s, x)

\* C10: the sequence is in breadth-first order: from a '0' start it begins
\* with the start's Hidden neighbours clockwise from above; the depth of its
\* cells never decreases along it; and the cells discovered from one expanded
\* cell (the first '0' cell of the order next to them) are in clockwise order
\* around that cell.
C10_RippleBreadthFirst ==
    \A s \in Cells :
        LET seq == ripple_sequence(board, s[1], s[2])
            order == <<s>> \o seq
            first == HiddenAround(board, s)
            Parent(x) == order[CHOOSE k \in 1..Len(order) :
                                 /\ Content(board, order[k]) = "0" /\ Adjacent(order[k], x)
                                 /\ \A m \in 1..(k - 1) :
                                       ~(Content(board, order[m]) = "0" /\ Adjacent(order[m], x))]
        IN /\ Content(board, s) = "0" =>
                 Len(seq) >= Len(first) /\ SubSeq(seq, 1, Len(first)) = first
           /\ \A i, j \in 1..Len(seq) :
                 i < j => DepthOf(board, s, seq[i]) <= DepthOf(board, s, seq[j])
           /\ \A i, j \in 1..Len(seq) :
                 (i < j /\ Parent(seq[i]) = Parent(seq[j])) =>
                     ClockIndex(Parent(seq[i]), seq[i]) < ClockIndex(Parent(seq[j]), seq[j])

\* a ripple_sequence call has returned cells of depth 1 and then of depth 2
C10_Witness ==
    /\ op = "ripple_sequence" /\ exc = "none"
    /\ Len(ret) >= 4
    /\ \E s \in Cells :
          /\ ret = ripple_sequence(board, s[1], s[2])
          /\ DepthOf(board, s, ret[1]) = 1
          /\ DepthOf(board, s, ret[Len(ret)]) = 2

\* ---- load_board
\* some line of ls that is not blank has a token that is not two characters,
\* the first of 0-8 or *, the second H or S
HasMalformedToken(ls) ==
    \E i \in 1..Len(ls) :
        LET l == strip(ls[i])
        IN Len(l) > 0 /\
           \E k \in 1..Len(split(l)) :
               LET t == split(l)[k]
               IN \/ Len(t) # 2
                  \/ t[1] \notin {"0", "1", "2", "3", "4", "5", "6", "7", "8", "*"}
                  \/ t[2] \notin {"H", "S"}

\* C2: when some non-blank line holds a malformed token, load_board raises
\* BoardFormatException, never DimensionsMismatchException, also when a line
\* before it has the wrong number of tokens.
C2_MalformedTakesPrecedence ==
    (op = "load_board" /\ HasMalformedToken(lines)) => exc = "BoardFormatException"

\* C3 (as claimed): once the board is seeded, no call changes the content of
\* a cell or turns a Revealed cell Hidden.  Read for the calls that return:
\* a load_board that raises may leave the board partly copied.
C3_SeededOnce ==
    [][(seeded # "no" /\ exc' = "none") =>
          /\ Len(board) = rows /\ Len(board') = rows
          /\ ContentKept /\ NoneHiddenAgain]_vars

\* C3 (amended): on a seeded board, every call other than load_board, and
\* other than a put_mines on a board whose cells are all '0' and Hidden,
\* keeps every cell's content and turns no Revealed cell Hidden; and an
\* uncover that succeeds changes one cell.
C3_OnlyLoadAndFreshPutMinesReseed ==
    [][(/\ seeded # "no"
        /\ op' # "load_board"
        /\ ~(op' = "put_mines" /\ \A p \in Cells : Content(board, p) = "0" /\ ~Revealed(board, p)))
       => /\ ContentKept /\ NoneHiddenAgain
          /\ (op' = "uncover" /\ exc' = "none") =>
                 Cardinality({p \in Cells : Revealed(board', p) # Revealed(board, p)}) = 1]_vars

\* a put_mines has raised on a loaded board that shows a mine next to a '1'
C3_Witness ==
    /\ seeded = "load_board" /\ op = "put_mines" /\ exc = "ScatterException"
    /\ Len(board) = rows
    /\ \E p, q \in Cells : IsMine(board, p) /\ Content(board, q) = "1" /\ Revealed(board, q)

\* ---------------------------------------------------------------------- C11
\* the cells ripple_sequence(row, column) returns once the target is
\* uncovered are distinct, are not the target, and are Hidden on b
RippleCellsHidden(b, row, column) ==
    LET ripple_seq == ripple_sequence(uncover(b, row, column).board, row, column)
    IN /\ NoRepeat(ripple_seq)
       /\ \A i \in 1..Len(ripple_seq) :
             /\ ripple_seq[i] # <<row, column>>
             /\ is_hidden(b, ripple_seq[i][1], ripple_seq[i][2]) = "H"

\* C11: on any board, placed or loaded, with any mix of Hidden and Revealed
\* cells, a make_move on an in-range Hidden cell never raises, and every cell
\* its ripple_sequence returns is Hidden when make_move uncovers it.
C11_MoveOnHiddenNeverRaises ==
    \A row \in RowArgs, column \in ColArgs :
       (checkIndices(row, column) /\ is_hidden(board, row, column) = "H")
       => /\ make_move(board, row, column).exc = "none"
          /\ get_value(board, row, column) = "0"
                => RippleCellsHidden(board, row, column)

\* a rippling move has returned on a board that keeps a Hidden mine
C11_Witness ==
    /\ op = "make_move"
    /\ exc = "none"
    /\ ret = "0"
    /\ Cardinality({p \in Cells : Revealed(board, p)}) >= 3
    /\ \E p \in Cells : IsMine(board, p) /\ ~Revealed(board, p)

\* ---------------------------------------------------------------------- C12
\* the indices name a cell of the board
InRange(row, column) ==
    row \in 0..(rows - 1) /\ column \in 0..(columns - 1)

\* what C12 says of a call that ended with exc' on the board of the state
RaisesAsDocumented(row, column) ==
    /\ exc' = "IllegalIndicesException" <=> ~InRange(row, column)
    /\ exc' = "IllegalMoveException"
          <=> (InRange(row, column) /\ Revealed(board, <<row, column>>))
    /\ exc' \in {"IllegalIndicesException", "IllegalMoveException"}
          => board' = board

\* C12: uncover and make_move raise IllegalIndicesException exactly when an
\* index is out of range (negative ones included), IllegalMoveException
\* exactly when the indices are in range and the cell is already Revealed,
\* and a call that fails in either way changes no cell.
C12_IllegalIndicesFirstThenIllegalMove ==
    [][\A row \in RowArgs, column \in ColArgs :
          /\ (op' = "uncover" /\ Call_uncover(row, column))
                => RaisesAsDocumented(row, column)
          /\ (op' = "make_move" /\ Call_make_move(row, column))
                => RaisesAsDocumented(row, column)]_vars

\* a move on a Revealed cell has failed after moves revealed some cells
C12_Witness ==
    /\ op = "make_move"
    /\ exc = "IllegalMoveException"
    /\ \E p \in Cells : Revealed(board, p)
    /\ \E p \in Cells : ~Revealed(board, p)

\* ---------------------------------------------------------------------- C13
\* the status C13 gives for board b
StatusReference(b) ==
    IF \E p \in Cells : IsMine(b, p) /\ Revealed(b, p)
    THEN "Lose"
    ELSE IF \A p \in Cells : ~Revealed(b, p)
    THEN "NotStarted"
    ELSE IF \A p \in Cells : ~IsMine(b, p) => Revealed(b, p)
    THEN "Win"
    ELSE "InProgress"

\* C13: get_status returns Lose if any mine is Revealed, even when every
\* non-mine cell is Revealed too; otherwise NotStarted if no cell is Revealed,
\* otherwise Win if every non-mine cell is Revealed, otherwise InProgress; and
\* it changes no cell.
C13_StatusMatchesReference ==
    [][Call_get_status
          => /\ ret' = StatusReference(board)
             /\ exc' = "none"
             /\ board' = board]_vars

\* get_status has returned Lose with every cell of the board Revealed
C13_Witness ==
    /\ op = "get_status"
    /\ ret = "Lose"
    /\ \A p \in Cells : Revealed(board, p)
    /\ \E p \in Cells : ~IsMine(board, p)

\* ---------------------------------------------------------------------- C14
\* C14: for any board g reached by construction, put_mines and uncover and
\* make_move calls, load_board of the row lines save_board wrote (the lines
\* after the two dimension lines), on a board of the same dimensions, succeeds
\* and gives a board equal to g in every cell, content and visibility; and
\* save_board leaves g unchanged.
C14_SaveLoadRoundTrip ==
    [][/\ Call_save_board => board' = board
       /\ Call_load_saved => (exc' = "none" /\ board' = board)]_vars

\* a saved board with a mine and with Hidden and Revealed cells has been
\* loaded again
C14_Witness ==
    /\ op = "load_board"
    /\ exc = "none"
    /\ lines = save_rows(board)
    /\ \E p \in Cells : IsMine(board, p)
    /\ \E p \in Cells : Revealed(board, p)
    /\ \E p \in Cells : ~Revealed(board, p)

\* ---------------------------------------------------------------------- C15
\* C15: on a constructed board, every cell '0' and Hidden and put_mines never
\* called, one make_move on any in-range cell reveals every cell,
\* ripple_sequence from that cell returns the other rows * columns - 1 cells,
\* and get_status goes from NotStarted to Win.
C15_FirstMoveOnEmptyBoardWins ==
    [][(board = Board__init__(rows, columns) /\ seeded = "no" /\ op' = "make_move")
          => \A row \in RowArgs, column \in ColArgs :
                (InRange(row, column) /\ Call_make_move(row, column))
                => LET ripple_seq ==
                           ripple_sequence(uncover(board, row, column).board,
                                           row, column)
                   IN /\ exc' = "none"
                      /\ \A p \in Cells : Revealed(board', p)
                      /\ SeqSet(ripple_seq) = Cells \ {<<row, column>>}
                      /\ Len(ripple_seq) = (rows * columns) - 1
                      /\ SeqSet(ripple_sequence(board, row, column))
                            = Cells \ {<<row, column>>}
                      /\ get_status(board) = "NotStarted"
                      /\ get_status(board') = "Win"]_vars

\* the first move on a mine-free board of at least six cells has returned
C15_Witness ==
    /\ op = "make_move"
    /\ exc = "none"
    /\ seeded = "no"
    /\ rows * columns >= 6
    /\ \A p \in Cells : Revealed(board, p) /\ ~IsMine(board, p)

\* ---------------------------------------------------------------------- C16
\* C16: make_move on a Hidden in-range cell that holds a mine or a nonzero
\* digit reveals exactly that cell, leaves the content and the visibility of
\* every other cell as they were, and returns the value of the cell;
\* make_move on a Hidden in-range '0' cell returns '0'.
C16_MoveOnMineOrDigitRevealsOneCell ==
    [][op' = "make_move"
          => \A row \in RowArgs, column \in ColArgs :
                (/\ InRange(row, column)
                 /\ ~Revealed(board, <<row, column>>)
                 /\ Call_make_move(row, column))
                => /\ exc' = "none"
                   /\ ret' = Content(board, <<row, column>>)
                   /\ Content(board, <<row, column>>) # "0"
                         => board' = [board EXCEPT ![row + 1][column + 1] =
                                         <<Content(board, <<row, column>>), "S">>]]_vars

\* a move on a nonzero digit has returned the digit and left Hidden cells
C16_Witness ==
    /\ op = "make_move"
    /\ exc = "none"
    /\ ret \in {"1", "2", "3"}
    /\ Cardinality({p \in Cells : Revealed(board, p)}) = 1
    /\ \E p \in Cells : ~Revealed(board, p) /\ ~IsMine(board, p)

\* ---------------------------------------------------------------------- C17
\* C17: Board(rows, columns) raises SizeOutOfBoundException exactly when
\* rows < 1, rows > 20, columns < 2 or columns > 50; for every other pair it
\* gives a rows x columns board with every cell '0' and Hidden.
C17_SizeLimits ==
    [][\A r \in RowSizes, c \in ColSizes :
          Call_Board__init__(r, c)
          => /\ exc' = "SizeOutOfBoundException"
                   <=> (r < 1 \/ r > 20 \/ c < 2 \/ c > 50)
             /\ exc' # "SizeOutOfBoundException"
                   => /\ exc' = "none"
                      /\ rows' = r
                      /\ columns' = c
                      /\ DOMAIN board' = 1..r
                      /\ \A i \in 1..r :
                            /\ DOMAIN board'[i] = 1..c
                            /\ \A j \in 1..c : board'[i][j] = <<"0", "H">>]_vars

\* the largest board has been constructed
C17_Witness ==
    /\ op = "__init__"
    /\ exc = "none"
    /\ rows = 20
    /\ columns = 50
    /\ board[20][50] = <<"0", "H">>

\* ---------------------------------------------------------------------- C18
\* C18: ripple_sequence always terminates, each cell being enqueued at most
\* once, so that there are at most rows * columns dequeues; and put_mines
\* with a valid count terminates when the draws are fair, its loop placing
\* all the mines in the end.
C18_LoopsTerminate ==
    /\ [](frame.loop = "ripple_sequence"
             => /\ NoRepeat(frame.ripple_seq \o frame.queue)
                /\ Len(frame.ripple_seq) <= rows * columns)
    /\ (frame.loop = "ripple_sequence")
          ~> (frame = NoFrame /\ op = "ripple_sequence")
    /\ (frame.loop = "put_mines")
          ~> (/\ frame = NoFrame
              /\ op = "put_mines"
              /\ seeded = "put_mines"
              /\ \E n \in 1..(rows * columns) - 1 :
                    Cardinality({p \in Cells : IsMine(board, p)}) = n)

\* a ripple_sequence that queued cells has returned on a board whose
\* put_mines loop has ended
C18_Witness ==
    /\ frame = NoFrame
    /\ op = "ripple_sequence"
    /\ exc = "none"
    /\ Len(ret) >= 2
    /\ seeded = "put_mines"

\* ---------------------------------------------------------------------- C19
\* the mines Revealed on b
RevealedMines(b) == {p \in Cells : IsMine(b, p) /\ Revealed(b, p)}

\* a make_move on a Hidden mine leads from the state to the next one
MoveOnMine ==
    /\ op' = "make_move"
    /\ \E row \in RowArgs, column \in ColArgs :
          /\ InRange(row, column)
          /\ IsMine(board, <<row, column>>)
          /\ Call_make_move(row, column)
          /\ RevealedMines(board') = RevealedMines(board) \cup {<<row, column>>}

\* C19: on the boards of a game, whose digits put_mines made consistent with
\* the mines, ripple_sequence never returns a mine from any cell, a make_move
\* on a cell that is not a mine reveals no mine, and get_status becomes Lose
\* only by a make_move whose own target holds a mine.
C19_LoseOnlyByMoveOnMine ==
    /\ [](\A p \in Cells :
             \A q \in SeqSet(ripple_sequence(board, p[1], p[2])) : ~IsMine(board, q))
    /\ [][board' # board
             => /\ RevealedMines(board') # RevealedMines(board) => MoveOnMine
                /\ (get_status(board) # "Lose" /\ get_status(board') = "Lose")
                      => MoveOnMine]_vars

\* the game is lost with a mine and a rippled '0' region both Revealed
C19_Witness ==
    /\ op = "make_move"
    /\ ret = "*"
    /\ get_status(board) = "Lose"
    /\ Cardinality(RevealedMines(board)) = 1
    /\ Cardinality({p \in Cells : Revealed(board, p) /\ Content(board, p) = "0"}) >= 2

\* ---------------------------------------------------------------------- C20
\* C20: from an all-Hidden board, constructed and maybe followed by
\* put_mines, under any sequence of make_move calls, in every state between
\* moves each Revealed cell whose value is '0' has all its in-bounds
\* 8-neighbours Revealed.
C20_CascadeClosed ==
    \A p \in Cells :
       (Revealed(board, p) /\ Content(board, p) = "0")
       => \A q \in Cells : Adjacent(p, q) => Revealed(board, q)

\* a move has rippled over a '0' region up to its digits and left cells Hidden
C20_Witness ==
    /\ op = "make_move"
    /\ ret = "0"
    /\ seeded = "put_mines"
    /\ Cardinality({p \in Cells : Revealed(board, p) /\ Content(board, p) = "0"}) >= 2
    /\ \E p \in Cells : Revealed(board, p) /\ Content(board, p) \notin {"0", "*"}
    /\ \E p \in Cells : ~Revealed(board, p) /\ ~IsMine(board, p)

\* ---------------------------------------------------------------------- C21
\* the game is over on the board of the state
GameOver == get_status(board) \in {"Win", "Lose"}

\* C21: in the loop of Game.run, make_move is called only when the status
\* computed at the top of the turn is NotStarted or InProgress; when it is Win
\* or Lose the choice of a move is answered with Illegal choice, so that under
\* the loop the board and the status never change again once the status is
\* Win or Lose.
C21_RunStopsMovesWhenOver ==
    [][/\ op' = "make_move" => get_status(board) \in {"NotStarted", "InProgress"}
       /\ GameOver
             => /\ board' = board
                /\ get_status(board') = get_status(board)
                /\ \A move \in MoveInputs :
                      Run_move(move) => (op' = "run" /\ ret' = "Illegal choice")]_vars

\* the loop has answered Illegal choice on a board that a move of the loop
\* lost while a mine-free cell is still Hidden
C21_Witness ==
    /\ op = "run"
    /\ ret = "Illegal choice"
    /\ seeded = "put_mines"
    /\ get_status(board) = "Lose"
    /\ \E p \in Cells : ~Revealed(board, p) /\ ~IsMine(board, p)

\* ---------------------------------------------------------------------- C22
NumRevealed(b) == Cardinality({p \in Cells : Revealed(b, p)})

\* C22: every make_move that returns reveals at least its target and hides no
\* cell, so the number of Revealed cells grows; hence at most rows * columns
\* make_move calls return, get_status is never NotStarted after one, and a
\* play that keeps making such moves while the status is NotStarted or
\* InProgress (one is always there to make) reaches Win or Lose in the end.
C22_MovesRevealAndPlayEnds ==
    /\ [][(op' = "make_move" /\ exc' = "none")
             => /\ NumRevealed(board') > NumRevealed(board)
                /\ NoneHiddenAgain
                /\ get_status(board') # "NotStarted"
                /\ \A row \in RowArgs, column \in ColArgs :
                      Play_make_move(row, column)
                      => (/\ ~Revealed(board, <<row, column>>)
                          /\ Revealed(board', <<row, column>>))]_vars
    /\ [](frame.moves <= rows * columns)
    /\ [](may_move(get_status(board))
             => \E row \in 0..(rows - 1), column \in 0..(columns - 1) :
                   /\ is_hidden(board, row, column) = "H"
                   /\ make_move(board, row, column).exc = "none")
    /\ <>GameOver

\* four moves have returned on a board of four cells
C22_Witness ==
    /\ op = "make_move"
    /\ exc = "none"
    /\ frame.moves = 4
    /\ rows * columns = 4
    /\ GameOver

====
